---- MODULE Spec2Model ----
(***************************************************************************)
(* FinSense agent: the five-node LangGraph pipeline (agent/graph.py,       *)
(* agent/nodes.py, agent/state.py) and the SmartLLMClient it calls, with   *)
(* the scoring functions of ml/ that node 1 uses.                          *)
(*                                                                         *)
(* Numbers: money amounts are integer numbers of hundredths of the         *)
(* currency unit (50000 is 500.00); percentages are kept in hundredths of  *)
(* a percent and the health score in tenths, which is what round(x, 2) and *)
(* round(x, 1) leave.  Python rounds a float half-to-even; the model       *)
(* rounds the exact quotient half-to-even, and where a claim depends on    *)
(* the rounding (the rebuilt budget) a tie goes either way, as the binary  *)
(* float next to the tie may lie on either side of it.                     *)
(*                                                                         *)
(* Strings that the code searches (str(e)) are sequences of tokens, and    *)
(* `"x" in s` is membership of the token x in the sequence.                *)
(***************************************************************************)
EXTENDS Integers, Sequences, FiniteSets, TLC

VARIABLES
    budget_input,   \* the dict handed to run_agent
    state,          \* the AgentState threaded through the graph
    node,           \* the graph node to run next, or END
    outcome,        \* "running" | "returned" | "raised": how run_agent ended
    exception,      \* the exception that left run_agent, or NoException
    executed,       \* the nodes the graph has invoked, in order
    clock,          \* datetime.now(), as a logical clock
    gpc,            \* position inside SmartLLMClient.generate
    gargs,          \* generate's arguments: [prompt, max_tokens]
    e,              \* generate's local `e` (the primary's exception)
    gemini_error,   \* generate's local `gemini_error`
    gresult,        \* the text generate returned, or the exception it raised
    io,             \* what generate did to the outside: backend calls and sleeps
    kb,             \* the calls of retrieve_knowledge, with how the store answered
    attempts,       \* the backend calls made so far in this run
    received,       \* the record handed to the last node: as it was at the
                    \* call, and as its holder finds it after the node
    heap,           \* the list objects of concurrent runs, by reference
    runs            \* concurrent calls of run_agent: position and record

vars == <<budget_input, state, node, outcome, exception, executed, clock,
          gpc, gargs, e, gemini_error, gresult, io, kb, attempts, received,
          heap, runs>>

(***************************************************************************)
(* Bounds of the model.                                                    *)
(***************************************************************************)
NumTexts == 1

(***************************************************************************)
(* Program constants.                                                      *)
(***************************************************************************)
QUOTA_COOLDOWN == 2
FULL_COOLDOWN == 60
ROAST_MAX_TOKENS == 500
COACH_MAX_TOKENS == 800
N_RESULTS == 4
MAX_ARTICLES == 5

FALLBACK_MESSAGE ==
    "Unable to generate response - quota exceeded. Please try again in a few minutes."

END == "END"
None == <<>>

\* ------------------------------------------------------------------------
\* Small helpers for Python values.
\* ------------------------------------------------------------------------

\* A dict that keeps insertion order (spending): a sequence of [k, v] records
\* with distinct keys.
Keys(d) == {d[i].k : i \in DOMAIN d}

\* d.get(key, default) on such a dict.
Get(d, key, default) ==
    IF \E i \in DOMAIN d : d[i].k = key
    THEN d[CHOOSE i \in DOMAIN d : d[i].k = key].v
    ELSE default

\* d.get(key, default) on a dict with fixed keys, kept as a record.
RecGet(r, key, default) == IF key \in DOMAIN r THEN r[key] ELSE default

RECURSIVE SumValues(_)
SumValues(d) == IF d = <<>> THEN 0 ELSE Head(d).v + SumValues(Tail(d))

Min(a, b) == IF a <= b THEN a ELSE b
Max(a, b) == IF a >= b THEN a ELSE b

\* round(n / d) to the nearest integer, ties to even (n >= 0, d > 0).
RoundHalfEven(n, d) ==
    LET q == n \div d
        r == n % d
    IN  IF 2 * r < d THEN q
        ELSE IF 2 * r > d THEN q + 1
        ELSE IF q % 2 = 0 THEN q ELSE q + 1

\* Mutant: the fraction is cut off.
RoundFloat_Truncated(n, d) == {n \div d}

\* round(n / d) where the float may sit on either side of a tie.
RoundFloat(n, d) ==
    IF 2 * (n % d) = d THEN {n \div d, (n \div d) + 1} ELSE {RoundHalfEven(n, d)}

\* `tok in s` and s.lower() on a tokenised string.
Contains(s, tok) == \E i \in DOMAIN s : s[i] = tok

LowerToken(tok) ==
    CASE tok = "Rate" -> "rate"
      [] tok = "RATE" -> "rate"
      [] tok = "Quota" -> "quota"
      [] tok = "RESOURCE_EXHAUSTED" -> "resource_exhausted"
      [] tok = "Unauthorized" -> "unauthorized"
      [] tok = "Error" -> "error"
      [] OTHER -> tok

Lower(s) == [i \in DOMAIN s |-> LowerToken(s[i])]

\* ------------------------------------------------------------------------
\* ml/anomaly_detector.py
\* ------------------------------------------------------------------------
INDIA_BENCHMARKS ==
    [rent          |-> [ideal |-> 25, warning |-> 35, critical |-> 45],
     food          |-> [ideal |-> 10, warning |-> 15, critical |-> 20],
     dining_out    |-> [ideal |-> 5,  warning |-> 10, critical |-> 15],
     transport     |-> [ideal |-> 8,  warning |-> 12, critical |-> 18],
     entertainment |-> [ideal |-> 3,  warning |-> 6,  critical |-> 10],
     subscriptions |-> [ideal |-> 2,  warning |-> 5,  critical |-> 8],
     shopping      |-> [ideal |-> 5,  warning |-> 10, critical |-> 15],
     health        |-> [ideal |-> 3,  warning |-> 6,  critical |-> 10],
     education     |-> [ideal |-> 5,  warning |-> 10, critical |-> 15],
     savings       |-> [ideal |-> 20, warning |-> 10, critical |-> 5],
     investments   |-> [ideal |-> 10, warning |-> 5,  critical |-> 0],
     other         |-> [ideal |-> 5,  warning |-> 8,  critical |-> 12]]

US_BENCHMARKS ==
    [rent          |-> [ideal |-> 28, warning |-> 35, critical |-> 45],
     food          |-> [ideal |-> 8,  warning |-> 12, critical |-> 18],
     dining_out    |-> [ideal |-> 5,  warning |-> 8,  critical |-> 12],
     transport     |-> [ideal |-> 10, warning |-> 15, critical |-> 20],
     entertainment |-> [ideal |-> 3,  warning |-> 6,  critical |-> 10],
     subscriptions |-> [ideal |-> 3,  warning |-> 6,  critical |-> 10],
     shopping      |-> [ideal |-> 5,  warning |-> 8,  critical |-> 12],
     health        |-> [ideal |-> 5,  warning |-> 8,  critical |-> 12],
     education     |-> [ideal |-> 3,  warning |-> 6,  critical |-> 10],
     savings       |-> [ideal |-> 15, warning |-> 8,  critical |-> 3],
     investments   |-> [ideal |-> 10, warning |-> 5,  critical |-> 0],
     other         |-> [ideal |-> 5,  warning |-> 8,  critical |-> 12]]

Benchmarks(country) == IF country = "india" THEN INDIA_BENCHMARKS ELSE US_BENCHMARKS

Currency(country) == IF country = "india" THEN "INR-sign" ELSE "$"

\* Exact fractions [n, d], kept in lowest terms so that the products stay small.
RECURSIVE GCD(_, _)
GCD(a, b) == IF b = 0 THEN a ELSE GCD(b, a % b)

Frac(n, d) == LET g == GCD(n, d) IN [n |-> n \div g, d |-> d \div g]

\* round((amount / monthly_income) * 100, 2), in hundredths of a percent.
Percentage(amount, monthly_income) ==
    LET f == Frac(amount, monthly_income) IN RoundHalfEven(f.n * 10000, f.d)

\* Mutant: savings and investments are compared like the spending categories.
Verdict_NotInverted(category, percentage, benchmark) ==
    IF percentage <= 100 * benchmark.ideal THEN "healthy"
    ELSE IF percentage <= 100 * benchmark.warning THEN "warning"
    ELSE "critical"

\* The branch of lines 86-99.  percentage is in hundredths, thresholds in percent.
Verdict(category, percentage, benchmark) ==
    IF category \in {"savings", "investments"}
    THEN IF percentage >= 100 * benchmark.ideal THEN "healthy"
         ELSE IF percentage >= 100 * benchmark.warning THEN "warning"
         ELSE "critical"
    ELSE IF percentage <= 100 * benchmark.ideal THEN "healthy"
         ELSE IF percentage <= 100 * benchmark.warning THEN "warning"
         ELSE "critical"

\* What IsolationForest.fit_predict / score_samples give for one sample: the
\* forest is a library; its answer is any of these.
ForestOutputs == {[prediction |-> -1, score |-> -7000],
                  [prediction |-> -1, score |-> -6200],
                  [prediction |-> 1,  score |-> -4100]}

\* The categories the loop of lines 58-66 keeps, in the spending's order.
BenchmarkedSpending(spending, country) ==
    SelectSeq(spending, LAMBDA kv : kv.k \in DOMAIN Benchmarks(country))

\* detect_anomalies raises ZeroDivisionError at line 53.
detect_anomalies_raises(spending, monthly_income) ==
    spending # <<>> /\ monthly_income = 0

\* detect_anomalies, given the forest's answers (one per benchmarked category).
detect_anomalies(spending, monthly_income, country, forest) ==
    LET benchmarks == Benchmarks(country)
        kept == BenchmarkedSpending(spending, country)
        results == [i \in DOMAIN kept |->
            LET category == kept[i].k
                percentage == Percentage(kept[i].v, monthly_income)
            IN  [category |-> category,
                 amount |-> kept[i].v,
                 percentage_of_income |-> percentage,
                 benchmark_percentage |-> benchmarks[category].ideal,
                 is_anomalous |-> (forest[i].prediction = -1),
                 anomaly_score |-> forest[i].score,
                 verdict |-> Verdict(category, percentage, benchmarks[category]),
                 currency |-> Currency(country)]]
        Rank(a, crit, anom) == (a.verdict = "critical") = crit /\ a.is_anomalous = anom
    IN  \* results.sort(key=(critical, is_anomalous), reverse=True): stable
        SelectSeq(results, LAMBDA a : Rank(a, TRUE, TRUE))
        \o SelectSeq(results, LAMBDA a : Rank(a, TRUE, FALSE))
        \o SelectSeq(results, LAMBDA a : Rank(a, FALSE, TRUE))
        \o SelectSeq(results, LAMBDA a : Rank(a, FALSE, FALSE))

\* ------------------------------------------------------------------------
\* ml/health_score.py
\* ------------------------------------------------------------------------

\* compute_health_score raises ZeroDivisionError at line 29.
compute_health_score_raises(monthly_income) == monthly_income = 0

\* Mutant: the grade boundaries are exclusive.
Grade_Exclusive(final_score) ==
    IF final_score > 800 THEN "A"
    ELSE IF final_score > 650 THEN "B"
    ELSE IF final_score > 500 THEN "C"
    ELSE IF final_score > 350 THEN "D"
    ELSE "F"

\* The grade ladder of compute_health_score; the score is in tenths.
Grade(final_score) ==
    IF final_score >= 800 THEN "A"
    ELSE IF final_score >= 650 THEN "B"
    ELSE IF final_score >= 500 THEN "C"
    ELSE IF final_score >= 350 THEN "D"
    ELSE "F"

FracAdd(x, y) == Frac(x.n * y.d + y.n * x.d, x.d * y.d)

\* min(cap, n / d) as a fraction.
FracCap(cap, n, d) ==
    LET f == Frac(n, d) IN IF f.n >= cap * f.d THEN Frac(cap, 1) ELSE f

\* compute_health_score; the score is in tenths.
compute_health_score(spending, monthly_income, anomalies, country) ==
    LET savings == Get(spending, "savings", 0)
        ideal_savings == IF country = "india" THEN 20 ELSE 15
        \* min(30, (savings_rate / ideal_savings) * 30)
        savings_score == FracCap(30, savings * 3000, monthly_income * ideal_savings)
        investments == Get(spending, "investments", 0)
        \* min(25, (investment_rate / 10) * 25)
        investment_score == FracCap(25, investments * 250, monthly_income)
        critical_count == Cardinality({i \in DOMAIN anomalies : anomalies[i].verdict = "critical"})
        warning_count == Cardinality({i \in DOMAIN anomalies : anomalies[i].verdict = "warning"})
        anomaly_penalty == critical_count * 4 + warning_count * 2
        anomaly_score == Max(0, 20 - anomaly_penalty)
        essential == Get(spending, "rent", 0) + Get(spending, "food", 0)
                     + Get(spending, "transport", 0) + Get(spending, "health", 0)
        discretionary == Get(spending, "dining_out", 0) + Get(spending, "entertainment", 0)
                         + Get(spending, "subscriptions", 0) + Get(spending, "shopping", 0)
        ratio_score == IF discretionary > 0
                       THEN FracCap(15, 15 * essential, essential + discretionary)
                       ELSE Frac(15, 1)
        total_spending == SumValues(spending)
        \* coverage_rate = (total_spending / monthly_income) * 100
        coverage_score ==
            IF total_spending * 100 <= 70 * monthly_income THEN 10
            ELSE IF total_spending * 100 <= 85 * monthly_income THEN 6
            ELSE IF total_spending * 100 <= 95 * monthly_income THEN 3
            ELSE 0
        score == FracAdd(FracAdd(savings_score, investment_score),
                         FracAdd(ratio_score, Frac(anomaly_score + coverage_score, 1)))
        capped == IF score.n >= 100 * score.d THEN Frac(100, 1) ELSE score
        \* round(min(100, score), 1)
        final_score == RoundHalfEven(10 * capped.n, capped.d)
    IN  [score |-> final_score, grade |-> Grade(final_score), status |-> "success"]

\* ------------------------------------------------------------------------
\* mcp_tools: what node 2 can be handed.  The network providers answer with
\* their live or their fallback dictionary; an unknown country gets the
\* error-only dictionary.
\* ------------------------------------------------------------------------
get_inflation(country) ==
    IF country = "india"
    THEN {[country |-> "india", inflation_rate |-> "5.22", status |-> "success"],
          [country |-> "india", inflation_rate |-> "4.8", status |-> "fallback"]}
    ELSE IF country = "us"
    THEN {[country |-> "us", inflation_rate |-> "2.9", status |-> "success"],
          [country |-> "us", inflation_rate |-> "3.1", status |-> "fallback",
           error |-> <<"FRED", "unavailable">>]}
    ELSE {[error |-> <<"Unknown", "country">>]}

\* Each ticker fails on its own inside the provider; the snapshot is opaque to
\* the pipeline.
get_market_data(country) ==
    IF country \in {"india", "us"}
    THEN {[country |-> country, indices |-> "prices", status |-> "success"]}
    ELSE {[error |-> <<"Unknown", "country">>]}

Articles(n) == [i \in 1..n |-> [title |-> "headline " \o ToString(i)]]

get_financial_news(country, max_articles) ==
    {[country |-> country, articles |-> Articles(max_articles), status |-> "success"],
     [country |-> country, articles |-> <<>>, status |-> "fallback",
      error |-> <<"NewsAPI", "unavailable">>]}

get_tax_estimate(country, annual_income) ==
    IF country = "india"
    THEN [country |-> "india", annual_income |-> annual_income,
          tip |-> "Invest in ELSS/PPF/NPS", status |-> "success"]
    ELSE IF country = "us"
    THEN [country |-> "us", annual_income |-> annual_income,
          tip |-> "Contribute to 401k", status |-> "success"]
    ELSE [error |-> <<"Unknown", "country">>]

\* calculate_sip / calculate_compound_interest: total_invested = 0 makes
\* return_percentage divide by zero, which the calculator turns into the error
\* dictionary.  The compound-growth figure is a float: future_value is kept as
\* the formula's arguments.
Calculator(monthly_amount, annual_return_rate, years, country) ==
    IF monthly_amount * (years * 12) = 0
    THEN [error |-> <<"float", "division", "by", "zero">>, status |-> "error"]
    ELSE [type |-> IF country = "india" THEN "SIP" ELSE "Compound Interest",
          monthly_amount |-> monthly_amount,
          years |-> years,
          annual_return_rate |-> annual_return_rate,
          future_value |-> <<monthly_amount, annual_return_rate, years>>,
          total_invested |-> monthly_amount * (years * 12),
          currency |-> IF country = "india" THEN "INR" ELSE "USD",
          status |-> "success"]

generate_projections(monthly_investable, country) ==
    LET annual_rate == IF country = "india" THEN 12 ELSE 10
    IN  [country |-> country,
         monthly_investable_amount |-> monthly_investable,
         assumed_annual_return |-> annual_rate,
         projections |->
            [y \in {5, 10, 20} |-> Calculator(monthly_investable, annual_rate, y, country)],
         status |-> "success"]

\* ------------------------------------------------------------------------
\* rag/retriever.py
\* ------------------------------------------------------------------------

\* The collection, nearest first for the query at hand (distance in 1/10000).
Collection ==
    <<[content |-> "SIP basics",    title |-> "SIP",    source |-> "SEBI", country |-> "india", distance |-> 2100],
      [content |-> "50/30/20 rule", title |-> "Budget", source |-> "CFPB", country |-> "both",  distance |-> 3000],
      [content |-> "401k basics",   title |-> "401k",   source |-> "IRS",  country |-> "us",    distance |-> 3300],
      [content |-> "PPF basics",    title |-> "PPF",    source |-> "RBI",  country |-> "india", distance |-> 4200],
      [content |-> "Emergency fund", title |-> "Safety", source |-> "CFPB", country |-> "both", distance |-> 5100],
      [content |-> "Roth IRA",      title |-> "IRA",    source |-> "IRS",  country |-> "us",    distance |-> 5600],
      [content |-> "Index funds",   title |-> "Index",  source |-> "SEC",  country |-> "both",  distance |-> 6400]>>

\* knowledge.sort(key=similarity, reverse=True): stable.
RECURSIVE SortBySimilarity(_)
SortBySimilarity(knowledge) ==
    IF knowledge = <<>> THEN <<>>
    ELSE LET best == CHOOSE i \in DOMAIN knowledge :
                        /\ \A j \in DOMAIN knowledge : knowledge[j].similarity <= knowledge[i].similarity
                        /\ \A j \in 1..(i - 1) : knowledge[j].similarity < knowledge[i].similarity
             rest == [j \in 1..(Len(knowledge) - 1) |->
                        IF j < best THEN knowledge[j] ELSE knowledge[j + 1]]
         IN  <<knowledge[best]>> \o SortBySimilarity(rest)

\* Mutant: the query carries no country filter.
retrieve_knowledge_NoFilter(query, country, n_results, store_ok) ==
    IF ~store_ok THEN <<>>
    ELSE LET results == SubSeq(Collection, 1, Min(n_results, Len(Collection)))
         IN  [i \in DOMAIN results |->
                 [content |-> results[i].content,
                  title |-> results[i].title,
                  source |-> results[i].source,
                  country |-> results[i].country,
                  similarity |-> 10000 - results[i].distance]]

\* retrieve_knowledge; store_ok = FALSE is any exception inside its try block.
retrieve_knowledge(query, country, n_results, store_ok) ==
    IF ~store_ok THEN <<>>
    ELSE LET matching == SelectSeq(Collection, LAMBDA d : d.country = country \/ d.country = "both")
             results == SubSeq(matching, 1, Min(n_results, Len(matching)))
             knowledge == [i \in DOMAIN results |->
                 [content |-> results[i].content,
                  title |-> results[i].title,
                  source |-> results[i].source,
                  country |-> results[i].country,
                  similarity |-> 10000 - results[i].distance]]
         IN  SortBySimilarity(knowledge)

\* ------------------------------------------------------------------------
\* agent/state.py
\* ------------------------------------------------------------------------
EmptyDict == <<>>

create_initial_state(input, now) ==
    [country |-> RecGet(input, "country", "india"),
     monthly_income |-> RecGet(input, "monthly_income", 0),
     spending |-> RecGet(input, "spending", <<>>),
     language |-> RecGet(input, "language", "english"),
     anomalies |-> <<>>,
     health_score |-> 0,
     health_grade |-> "",
     inflation_data |-> EmptyDict,
     market_data |-> EmptyDict,
     news_articles |-> <<>>,
     tax_estimate |-> EmptyDict,
     projections |-> EmptyDict,
     investment_recommendations |-> <<>>,
     retrieved_knowledge |-> <<>>,
     roast |-> "",
     coach_plan |-> "",
     rebuilt_budget |-> EmptyDict,
     steps |-> <<>>,
     timestamp |-> now,
     error |-> None]

\* ------------------------------------------------------------------------
\* agent/nodes.py: SmartLLMClient
\* ------------------------------------------------------------------------

\* str(e) of the exceptions a backend raises.
ErrorStrings ==
    {<<"Error", "code:", "429">>,
     <<"Rate", "limit", "reached">>,
     <<"Quota", "exceeded">>,
     <<"RESOURCE_EXHAUSTED">>,
     <<"401", "Unauthorized">>}

GroqTexts == {"groq text " \o ToString(i) : i \in 1..NumTexts}
GeminiTexts == {"gemini text " \o ToString(i) : i \in 1..NumTexts}

Success(texts) == {[ok |-> TRUE, text |-> t] : t \in texts}
Failure == {[ok |-> FALSE, error |-> m] : m \in ErrorStrings}

\* Mutant: only the status marker is looked for.
IsGroqQuotaError_StatusOnly(error_str) == Contains(error_str, "429")

\* Line 53.
IsGroqQuotaError(error_str) ==
    \/ Contains(error_str, "429")
    \/ Contains(Lower(error_str), "rate")
    \/ Contains(Lower(error_str), "quota")

\* Line 67.
IsGeminiQuotaError(gemini_error_str) ==
    \/ Contains(gemini_error_str, "429")
    \/ Contains(gemini_error_str, "RESOURCE_EXHAUSTED")

\* groq_client.chat.completions.create(...), lines 42-47 and 72-77.
GroqCall(prompt, max_tokens, result) ==
    [kind |-> "call", provider |-> "groq", model |-> "llama-3.3-70b-versatile",
     prompt |-> prompt, max_tokens |-> max_tokens, result |-> result]

\* gemini_client.models.generate_content(...), lines 59-62.
GeminiCall(prompt, result) ==
    [kind |-> "call", provider |-> "gemini", model |-> "gemini-2.0-flash",
     prompt |-> prompt, result |-> result]

\* time.sleep(seconds)
Sleep(seconds) == [kind |-> "sleep", seconds |-> seconds]

NoResult == [kind |-> "none"]
Returned(text) == [kind |-> "return", text |-> text]
Raised(exc) == [kind |-> "raise", exc |-> exc]

\* Mutant: the content of the response is dropped.
ResponseText_Empty(result) == ""

\* response.choices[0].message.content / gemini_response.text
ResponseText(result) == result.text

\* Line 80: what the last except block gives back.
FinalRetryFailed(exc) == Returned(FALLBACK_MESSAGE)

\* Mutant: every failure of the primary falls back to the secondary.
PrimaryFailed_AlwaysFallback(error_str) == "gemini"

\* Line 83 / the end of the outer except block.
PrimaryFailed(error_str) == IF IsGroqQuotaError(error_str) THEN "gemini" ELSE "raise"

\* Mutant: every failure of the secondary leads to the final retry.
SecondaryFailed_AlwaysRetry(gemini_error_str) == "retry"

\* Lines 67-81.
SecondaryFailed(gemini_error_str) ==
    IF IsGeminiQuotaError(gemini_error_str) THEN "retry" ELSE "raise"

\* ------------------------------------------------------------------------
\* agent/nodes.py: add_step and the prompts
\* ------------------------------------------------------------------------
\* Mutant: the step number is the length before the append.
add_step_OffByOne(st, step_name, detail) ==
    Append(st.steps,
           [step_number |-> Len(st.steps),
            step_name |-> step_name,
            detail |-> detail,
            timestamp |-> clock,
            status |-> "complete"])

add_step(st, step_name, detail) ==
    Append(st.steps,
           [step_number |-> Len(st.steps) + 1,
            step_name |-> step_name,
            detail |-> detail,
            timestamp |-> clock,
            status |-> "complete"])

\* The record a node was handed, before and after the node.  add_step takes the
\* list out of the record (line 92), appends to that list (line 93) and returns
\* it (line 100): the list the node returns is the list the record holds.
Handed(st, returned_steps) ==
    [before |-> st, after |-> [st EXCEPT !.steps = returned_steps]]

Anomalous(anomalies) == SelectSeq(anomalies, LAMBDA a : a.is_anomalous)

\* Mutant: a missing inflation_rate is read as None.
RoastPrompt_NoDefault(st) ==
    [template |-> "roast",
     country |-> st.country,
     monthly_income |-> st.monthly_income,
     health_score |-> st.health_score,
     inflation_rate |-> RecGet(st.inflation_data, "inflation_rate", None),
     anomaly_text |-> <<>>,
     instruction |-> "Write in English"]

\* The f-string of lines 234-254, as the values it interpolates.
RoastPrompt(st) ==
    LET anomalous == Anomalous(st.anomalies)
    IN  [template |-> "roast",
         country |-> st.country,
         monthly_income |-> st.monthly_income,
         health_score |-> st.health_score,
         inflation_rate |-> RecGet(st.inflation_data, "inflation_rate", "N/A"),
         anomaly_text |-> [i \in DOMAIN anomalous |->
                              [category |-> anomalous[i].category,
                               amount |-> anomalous[i].amount,
                               percentage_of_income |-> anomalous[i].percentage_of_income,
                               benchmark_percentage |-> anomalous[i].benchmark_percentage]],
         instruction |-> IF st.language = "hinglish"
                         THEN "Write in Hinglish" ELSE "Write in English"]

Framework(country) == IF country = "india" THEN "40/30/30" ELSE "50/30/20"

\* The f-string of lines 292-317, as the values it interpolates.
CoachPrompt(st) ==
    LET proj_data == RecGet(st.projections, "projections", EmptyDict)
        knowledge == st.retrieved_knowledge
    IN  [template |-> "coach",
         country |-> st.country,
         monthly_income |-> st.monthly_income,
         inflation_rate |-> RecGet(st.inflation_data, "inflation_rate", "N/A"),
         framework |-> Framework(st.country),
         spending |-> st.spending,
         proj_summary |-> [y \in DOMAIN proj_data |-> RecGet(proj_data[y], "future_value", 0)],
         tax_tip |-> RecGet(st.tax_estimate, "tip", ""),
         knowledge_context |-> [i \in 1..Min(3, Len(knowledge)) |-> knowledge[i].content]]

\* Mutant: the 50/30/20 split whatever the country.
RebuiltBudget_DefaultSplit(country, monthly_income) ==
    [needs : RoundFloat(monthly_income * 50, 100),
     wants : RoundFloat(monthly_income * 30, 100),
     savings_investments : RoundFloat(monthly_income * 20, 100),
     framework : {"50/30/20"}]

\* Lines 321-334: round(monthly_income * ratio, 2), every value the rounding
\* can give.
RebuiltBudget(country, monthly_income) ==
    IF country = "india"
    THEN [needs : RoundFloat(monthly_income * 40, 100),
          wants : RoundFloat(monthly_income * 30, 100),
          savings_investments : RoundFloat(monthly_income * 30, 100),
          framework : {"40/30/30"}]
    ELSE [needs : RoundFloat(monthly_income * 50, 100),
          wants : RoundFloat(monthly_income * 30, 100),
          savings_investments : RoundFloat(monthly_income * 20, 100),
          framework : {"50/30/20"}]

\* ------------------------------------------------------------------------
\* agent/graph.py
\* ------------------------------------------------------------------------
ENTRY_POINT == "analyze_spending"

\* Mutant: the edge out of analyze_spending skips fetch_live_data.
Edge_SkipFetch(n) ==
    CASE n = "analyze_spending" -> "retrieve_knowledge"
      [] n = "fetch_live_data" -> "retrieve_knowledge"
      [] n = "retrieve_knowledge" -> "generate_roast"
      [] n = "generate_roast" -> "generate_coach_plan"
      [] n = "generate_coach_plan" -> END

Edge(n) ==
    CASE n = "analyze_spending" -> "fetch_live_data"
      [] n = "fetch_live_data" -> "retrieve_knowledge"
      [] n = "retrieve_knowledge" -> "generate_roast"
      [] n = "generate_roast" -> "generate_coach_plan"
      [] n = "generate_coach_plan" -> END

\* ------------------------------------------------------------------------
\* The inputs of the model.
\* ------------------------------------------------------------------------
Countries == {"india", "us", "uk"}
Incomes == {0, 50000}
Languages == {"english", "hinglish"}
Spendings ==
    {<<>>,
     <<[k |-> "rent", v |-> 15000], [k |-> "investments", v |-> 0]>>,
     <<[k |-> "dining_out", v |-> 8000], [k |-> "gym", v |-> 1000]>>}

\* Inputs beyond the product: keys left to their defaults, the income of the
\* sample budget (50000.00), incomes whose shares do not fall on whole
\* hundredths, spending above the income, and a budget with four benchmarked
\* categories.
ExtraInputs ==
    {[monthly_income |-> 50000,
      spending |-> <<[k |-> "savings", v |-> 2000]>>],
     [country |-> "india", monthly_income |-> 5000000, spending |-> <<>>,
      language |-> "english"],
     [country |-> "india", monthly_income |-> 123455, spending |-> <<>>,
      language |-> "hinglish"],
     [country |-> "us", monthly_income |-> 123457, spending |-> <<>>,
      language |-> "english"],
     [country |-> "uk", monthly_income |-> 9,
      spending |-> <<[k |-> "rent", v |-> 12]>>, language |-> "english"],
     [country |-> "us", monthly_income |-> 5000,
      spending |-> <<[k |-> "rent", v |-> 6000], [k |-> "savings", v |-> 500]>>,
      language |-> "english"],
     [country |-> "india", monthly_income |-> 50000,
      spending |-> <<[k |-> "rent", v |-> 15000], [k |-> "food", v |-> 5000],
                     [k |-> "dining_out", v |-> 8000], [k |-> "shopping", v |-> 4000]>>,
      language |-> "english"]}

BudgetInputs ==
    [country : Countries, monthly_income : Incomes, spending : Spendings,
     language : Languages]
    \cup ExtraInputs

NoArgs == [prompt |-> EmptyDict, max_tokens |-> 0]

\* Concurrent callers of run_agent.
Runs == {1, 2}

\* A derived field nobody has written yet.
Unwritten == 0

NotStarted ==
    [pc |-> "idle", node |-> ENTRY_POINT,
     record |-> [monthly_income |-> 0, anomalies |-> Unwritten,
                 inflation_data |-> Unwritten, retrieved_knowledge |-> Unwritten,
                 roast |-> Unwritten, coach_plan |-> Unwritten, steps |-> 0]]

\* A run started on one of the given inputs.
InitFrom(inputs) ==
    /\ budget_input \in inputs
    /\ state = create_initial_state(budget_input, 0)
    /\ node = ENTRY_POINT
    /\ outcome = "running"
    /\ exception = None
    /\ executed = <<>>
    /\ clock = 1
    /\ gpc = "idle"
    /\ gargs = NoArgs
    /\ e = None
    /\ gemini_error = None
    /\ gresult = NoResult
    /\ io = <<>>
    /\ kb = <<>>
    /\ attempts = 0
    /\ received = [before |-> state, after |-> state]
    /\ heap = <<>>
    /\ runs = [r \in Runs |-> NotStarted]

Init == InitFrom(BudgetInputs)

GenerateIdle == UNCHANGED <<gpc, gargs, e, gemini_error, gresult, io>>

\* Mutant: the exception is stored in the error slot and the run ends normally.
Propagate_Captured(exc) ==
    /\ outcome' = outcome
    /\ exception' = exc
    /\ state' = [state EXCEPT !.error = exc]
    /\ node' = END
    /\ clock' = clock

\* An exception leaves the node, finsense_agent.invoke and run_agent: none of
\* them has a handler (graph.py 43-51).
Propagate(exc) ==
    /\ outcome' = "raised"
    /\ exception' = exc
    /\ UNCHANGED <<state, node, clock>>

\* What the forest can answer for n samples.
AllForests(n) == [1..n -> ForestOutputs]

\* IsolationForest answering alike for every sample.
UniformForests(n) == {[i \in 1..n |-> f] : f \in ForestOutputs}

\* Node 1, nodes.py 104-130; uniform: the forest answers alike for every sample.
AnalyzeSpending(uniform) ==
    /\ outcome = "running" /\ node = "analyze_spending"
    /\ executed' = Append(executed, node)
    /\ LET spending == state.spending
           monthly_income == state.monthly_income
           country == state.country
       IN  IF \/ detect_anomalies_raises(spending, monthly_income)
              \/ compute_health_score_raises(monthly_income)
           THEN Propagate(<<"division", "by", "zero">>)
           ELSE \E forest \in IF uniform
                                THEN UniformForests(Len(BenchmarkedSpending(spending, country)))
                                ELSE AllForests(Len(BenchmarkedSpending(spending, country))) :
                LET anomalies == detect_anomalies(spending, monthly_income, country, forest)
                    health_result == compute_health_score(spending, monthly_income, anomalies, country)
                    steps == add_step(state, "Analyzing spending patterns",
                                 "Found " \o ToString(Len(Anomalous(anomalies)))
                                 \o " anomalies in your budget")
                IN  /\ state' = [state EXCEPT !.anomalies = anomalies,
                                              !.health_score = health_result.score,
                                              !.health_grade = health_result.grade,
                                              !.steps = steps]
                    /\ node' = Edge(node)
                    /\ clock' = clock + 1
                    /\ UNCHANGED <<outcome, exception>>
    /\ received' = Handed(state, state'.steps)
    /\ UNCHANGED <<budget_input, attempts, heap, runs, kb>>
    /\ GenerateIdle

node_analyze_spending == AnalyzeSpending(FALSE)

\* Mutant: all the spending is subtracted and the difference is not floored.
InvestableAmount_Unfloored(spending, monthly_income) ==
    monthly_income - SumValues(spending)

\* Lines 150-153: what is left of the income after the spending that is neither
\* saved nor invested.
InvestableAmount(spending, monthly_income) ==
    LET total_spending == SumValues(SelectSeq(spending,
                              LAMBDA kv : kv.k \notin {"savings", "investments"}))
    IN  Max(0, monthly_income - total_spending)

\* Node 2, nodes.py 134-171.
node_fetch_live_data ==
    /\ outcome = "running" /\ node = "fetch_live_data"
    /\ executed' = Append(executed, node)
    /\ LET country == state.country
           monthly_income == state.monthly_income
           annual_income == monthly_income * 12
           spending == state.spending
           investable_amount == InvestableAmount(spending, monthly_income)
           projections == generate_projections(investable_amount, country)
           tax_estimate == get_tax_estimate(country, annual_income)
       IN  \E inflation_data \in get_inflation(country),
              market_data \in get_market_data(country),
              news_articles \in get_financial_news(country, MAX_ARTICLES) :
             LET steps == add_step(state, "Fetching live market and economic data",
                              "Inflation: " \o RecGet(inflation_data, "inflation_rate", "N/A")
                              \o "% | Fetched market prices + "
                              \o ToString(Len(RecGet(news_articles, "articles", <<>>)))
                              \o " news articles")
             IN  state' = [state EXCEPT !.inflation_data = inflation_data,
                                        !.market_data = market_data,
                                        !.news_articles = RecGet(news_articles, "articles", <<>>),
                                        !.tax_estimate = tax_estimate,
                                        !.projections = projections,
                                        !.steps = steps]
    /\ node' = Edge(node)
    /\ clock' = clock + 1
    /\ received' = Handed(state, state'.steps)
    /\ UNCHANGED <<budget_input, attempts, heap, runs, outcome, exception, kb>>
    /\ GenerateIdle

\* Mutant: the flagged entries are left in the order of the anomaly list.
SortByScore_Unsorted(anomalous) == anomalous

\* The query of lines 186-191.
RECURSIVE SortByScore(_)
SortByScore(anomalous) ==
    IF anomalous = <<>> THEN <<>>
    ELSE LET best == CHOOSE i \in DOMAIN anomalous :
                        /\ \A j \in DOMAIN anomalous : anomalous[j].anomaly_score <= anomalous[i].anomaly_score
                        /\ \A j \in 1..(i - 1) : anomalous[j].anomaly_score < anomalous[i].anomaly_score
             rest == [j \in 1..(Len(anomalous) - 1) |->
                        IF j < best THEN anomalous[j] ELSE anomalous[j + 1]]
         IN  <<anomalous[best]>> \o SortByScore(rest)

Query(anomalies, country) ==
    LET anomalous == Anomalous(anomalies)
    IN  IF anomalous # <<>>
        THEN LET sorted == SortByScore(anomalous)
                 worst == SubSeq(sorted, 1, Min(3, Len(sorted)))
             IN  [text |-> "budgeting advice for overspending on",
                  categories |-> [i \in DOMAIN worst |-> worst[i].category]]
        ELSE [text |-> "general budgeting and investing advice for",
              country |-> country]

\* Node 3, nodes.py 175-205.  store: the import of rag.retriever raises
\* ("import_error"), the retriever's own try block fails ("query_error"), or
\* the collection answers ("ok").
node_retrieve_knowledge ==
    /\ outcome = "running" /\ node = "retrieve_knowledge"
    /\ executed' = Append(executed, node)
    /\ \E store \in {"import_error", "query_error", "ok"} :
         IF store = "import_error"
         THEN LET steps == add_step(state, "Knowledge retrieval",
                               "Error: chroma unavailable")
              IN  /\ state' = [state EXCEPT !.retrieved_knowledge = <<>>, !.steps = steps]
                  /\ kb' = kb
         ELSE LET query == Query(state.anomalies, state.country)
                  knowledge == retrieve_knowledge(query, state.country, N_RESULTS, store = "ok")
                  steps == add_step(state, "Retrieving financial literacy knowledge",
                               "Found " \o ToString(Len(knowledge))
                               \o " relevant passages from trusted sources")
              IN  /\ state' = [state EXCEPT !.retrieved_knowledge = knowledge, !.steps = steps]
                  /\ kb' = Append(kb, [query |-> query, country |-> state.country,
                                       n_results |-> N_RESULTS, raised |-> store # "ok"])
    /\ node' = Edge(node)
    /\ clock' = clock + 1
    /\ received' = Handed(state, state'.steps)
    /\ UNCHANGED <<budget_input, attempts, heap, runs, outcome, exception>>
    /\ GenerateIdle

\* Mutant: a call that follows an exhausted one starts at the secondary.
CallGenerate_RemembersExhausted(prompt, max_tokens) ==
    /\ gpc' = IF state.roast = FALLBACK_MESSAGE THEN "gemini" ELSE "groq"
    /\ gargs' = [prompt |-> prompt, max_tokens |-> max_tokens]
    /\ e' = None
    /\ gemini_error' = None
    /\ gresult' = NoResult
    /\ io' = <<>>

\* smart_client.generate(prompt, max_tokens) is entered (nodes.py 256 and 319).
CallGenerate(prompt, max_tokens) ==
    /\ gpc' = "groq"
    /\ gargs' = [prompt |-> prompt, max_tokens |-> max_tokens]
    /\ e' = None
    /\ gemini_error' = None
    /\ gresult' = NoResult
    /\ io' = <<>>

\* generate has returned or raised and its frame is gone.
LeaveGenerate ==
    /\ gpc' = "idle"
    /\ gargs' = NoArgs
    /\ e' = None
    /\ gemini_error' = None
    /\ gresult' = NoResult
    /\ io' = <<>>

\* Node 4 up to its call of generate, nodes.py 209-256.
roast_call_generate ==
    /\ outcome = "running" /\ node = "generate_roast" /\ gpc = "idle"
    /\ executed' = Append(executed, node)
    /\ CallGenerate(RoastPrompt(state), ROAST_MAX_TOKENS)
    /\ UNCHANGED <<budget_input, attempts, heap, runs, received, state, node, outcome, exception, clock, kb>>

\* Node 5 up to its call of generate, nodes.py 264-319.
coach_call_generate ==
    /\ outcome = "running" /\ node = "generate_coach_plan" /\ gpc = "idle"
    /\ executed' = Append(executed, node)
    /\ CallGenerate(CoachPrompt(state), COACH_MAX_TOKENS)
    /\ UNCHANGED <<budget_input, attempts, heap, runs, received, state, node, outcome, exception, clock, kb>>

\* The variables of the single run.
Pipeline_Single == <<budget_input, state, node, outcome, exception, executed, clock, kb,
                     received, attempts, gpc, gargs, e, gemini_error, gresult, io>>

Pipeline == <<budget_input, state, node, outcome, exception, executed, clock, kb,
              received, heap, runs>>

\* generate, lines 41-53 and 83: the first call of the primary.
groq_first_attempt ==
    /\ gpc = "groq"
    /\ \E result \in Success(GroqTexts) \cup Failure :
         /\ io' = Append(io, GroqCall(gargs.prompt, gargs.max_tokens, result))
         /\ IF result.ok
            THEN /\ gresult' = Returned(ResponseText(result))
                 /\ gpc' = "done"
                 /\ e' = e
            ELSE /\ e' = result.error
                 /\ IF PrimaryFailed(result.error) = "gemini"
                    THEN gpc' = "gemini" /\ gresult' = gresult
                    ELSE gpc' = "done" /\ gresult' = Raised(result.error)
    /\ UNCHANGED <<gargs, gemini_error>>
    /\ attempts' = attempts + 1
    /\ UNCHANGED Pipeline

\* generate, lines 54-67 and 81: the short sleep and the call of the secondary.
gemini_fallback ==
    /\ gpc = "gemini"
    /\ \E result \in Success(GeminiTexts) \cup Failure :
         /\ io' = io \o <<Sleep(QUOTA_COOLDOWN), GeminiCall(gargs.prompt, result)>>
         /\ IF result.ok
            THEN /\ gresult' = Returned(ResponseText(result))
                 /\ gpc' = "done"
                 /\ gemini_error' = gemini_error
            ELSE /\ gemini_error' = result.error
                 /\ IF SecondaryFailed(result.error) = "retry"
                    THEN gpc' = "retry" /\ gresult' = gresult
                    ELSE gpc' = "done" /\ gresult' = Raised(result.error)
    /\ UNCHANGED <<gargs, e>>
    /\ attempts' = attempts + 1
    /\ UNCHANGED Pipeline

\* generate, lines 68-80: the long sleep and the last call of the primary.
groq_final_retry ==
    /\ gpc = "retry"
    /\ \E result \in Success(GroqTexts) \cup Failure :
         /\ io' = io \o <<Sleep(FULL_COOLDOWN), GroqCall(gargs.prompt, gargs.max_tokens, result)>>
         /\ gresult' = IF result.ok THEN Returned(ResponseText(result))
                       ELSE FinalRetryFailed(result.error)
         /\ gpc' = "done"
    /\ UNCHANGED <<gargs, e, gemini_error>>
    /\ attempts' = attempts + 1
    /\ UNCHANGED Pipeline

\* Node 4 after generate returned, nodes.py 256-260.
roast_finish ==
    /\ node = "generate_roast" /\ gpc = "done" /\ gresult.kind = "return"
    /\ LET steps == add_step(state, "Generating your financial roast",
                        "Roast generated successfully")
       IN  state' = [state EXCEPT !.roast = gresult.text, !.steps = steps]
    /\ node' = Edge(node)
    /\ clock' = clock + 1
    /\ LeaveGenerate
    /\ received' = Handed(state, state'.steps)
    /\ UNCHANGED <<budget_input, attempts, heap, runs, outcome, exception, executed, kb>>

\* Mutant: node 5 also resets the roast.
coach_finish_ClearsRoast ==
    /\ node = "generate_coach_plan" /\ gpc = "done" /\ gresult.kind = "return"
    /\ \E rebuilt_budget \in RebuiltBudget(state.country, state.monthly_income) :
         state' = [state EXCEPT !.coach_plan = gresult.text,
                                !.roast = "",
                                !.rebuilt_budget = rebuilt_budget,
                                !.steps = add_step(state, "Building your personalized coach plan",
                                                   "Coach plan ready")]
    /\ node' = Edge(node)
    /\ clock' = clock + 1
    /\ LeaveGenerate
    /\ received' = Handed(state, state'.steps)
    /\ UNCHANGED <<budget_input, attempts, heap, runs, outcome, exception, executed, kb>>

\* Node 5 after generate returned, nodes.py 319-343.
coach_finish ==
    /\ node = "generate_coach_plan" /\ gpc = "done" /\ gresult.kind = "return"
    /\ \E rebuilt_budget \in RebuiltBudget(state.country, state.monthly_income) :
         LET steps == add_step(state, "Building your personalized coach plan",
                          "Coach plan ready")
         IN  state' = [state EXCEPT !.coach_plan = gresult.text,
                                    !.rebuilt_budget = rebuilt_budget,
                                    !.steps = steps]
    /\ node' = Edge(node)
    /\ clock' = clock + 1
    /\ LeaveGenerate
    /\ received' = Handed(state, state'.steps)
    /\ UNCHANGED <<budget_input, attempts, heap, runs, outcome, exception, executed, kb>>

\* generate raised inside node 4 or node 5: nothing catches it.
generate_raised ==
    /\ outcome = "running" /\ gpc = "done" /\ gresult.kind = "raise"
    /\ Propagate(gresult.exc)
    /\ LeaveGenerate
    /\ received' = Handed(state, state'.steps)
    /\ UNCHANGED <<budget_input, attempts, heap, runs, executed, kb>>

\* run_agent returns final_state, graph.py 50-51.
run_agent_returns ==
    /\ outcome = "running" /\ node = END
    /\ outcome' = "returned"
    /\ UNCHANGED <<budget_input, attempts, heap, runs, received, state, node, exception, executed, clock, kb>>
    /\ GenerateIdle

Next ==
    \/ node_analyze_spending
    \/ node_fetch_live_data
    \/ node_retrieve_knowledge
    \/ roast_call_generate
    \/ coach_call_generate
    \/ groq_first_attempt
    \/ gemini_fallback
    \/ groq_final_retry
    \/ roast_finish
    \/ coach_finish
    \/ generate_raised
    \/ run_agent_returns

Spec == Init /\ [][Next]_vars

\* ------------------------------------------------------------------------
\* Two calls of run_agent whose nodes interleave.  A record is reduced to
\* the income, the reference of its steps list, and, for every derived field,
\* the run that wrote it; a list object lives in heap under its reference.
\* ------------------------------------------------------------------------

\* Mutant: the steps list is one module-level object.
NewList_ModuleLevel(h) ==
    [ref |-> 1, heap |-> IF h = <<>> THEN <<<<>>>> ELSE h]

\* The literal [] of state.py line 85: a new list object at every call.
NewList(h) == [ref |-> Len(h) + 1, heap |-> Append(h, <<>>)]

\* run_agent builds its own initial record, graph.py 48-49.
run_agent_starts(r) ==
    /\ runs[r].pc = "idle"
    /\ \E monthly_income \in Incomes :
         LET steps == NewList(heap)
         IN  /\ heap' = steps.heap
             /\ runs' = [runs EXCEPT ![r].pc = "running",
                                     ![r].record.monthly_income = monthly_income,
                                     ![r].record.steps = steps.ref]
    /\ UNCHANGED Pipeline_Single

\* The field a node writes.
DerivedField(n) ==
    CASE n = "analyze_spending" -> "anomalies"
      [] n = "fetch_live_data" -> "inflation_data"
      [] n = "retrieve_knowledge" -> "retrieved_knowledge"
      [] n = "generate_roast" -> "roast"
      [] n = "generate_coach_plan" -> "coach_plan"

\* The nodes that can raise: node 1 on a zero income, nodes 4 and 5 when
\* generate raises.
NodeCanRaise(n, record) ==
    \/ n = "analyze_spending" /\ compute_health_score_raises(record.monthly_income)
    \/ n \in {"generate_roast", "generate_coach_plan"}

NodeCanReturn(n, record) ==
    ~(n = "analyze_spending" /\ compute_health_score_raises(record.monthly_income))

\* The entries of all lists: datetime.now() advances with every entry.
RECURSIVE TotalEntries(_)
TotalEntries(h) == IF h = <<>> THEN 0 ELSE Len(Head(h)) + TotalEntries(Tail(h))

\* A node of run r returns {**state, field: ..., "steps": add_step(state, ...)}:
\* a new dictionary, and an entry appended to the list the record refers to.
run_node_returns(r) ==
    /\ runs[r].pc = "running" /\ runs[r].node # END
    /\ NodeCanReturn(runs[r].node, runs[r].record)
    /\ LET n == runs[r].node
           ref == runs[r].record.steps
           steps == heap[ref]
       IN  /\ heap' = [heap EXCEPT ![ref] =
                          Append(steps, [step_number |-> Len(steps) + 1,
                                         step_name |-> n,
                                         timestamp |-> TotalEntries(heap) + 1,
                                         status |-> "complete",
                                         by |-> r])]
           /\ runs' = [runs EXCEPT ![r].record[DerivedField(n)] = r,
                                   ![r].node = Edge(n)]
    /\ UNCHANGED Pipeline_Single

\* A node of run r raises: the exception leaves run_agent.
run_node_raises(r) ==
    /\ runs[r].pc = "running" /\ runs[r].node # END
    /\ NodeCanRaise(runs[r].node, runs[r].record)
    /\ runs' = [runs EXCEPT ![r].pc = "raised"]
    /\ UNCHANGED heap
    /\ UNCHANGED Pipeline_Single

\* finsense_agent.invoke returns the final record of run r, graph.py 50-51.
run_agent_finishes(r) ==
    /\ runs[r].pc = "running" /\ runs[r].node = END
    /\ runs' = [runs EXCEPT ![r].pc = "returned"]
    /\ UNCHANGED heap
    /\ UNCHANGED Pipeline_Single

ConcurrentNext ==
    \E r \in Runs :
        \/ run_agent_starts(r)
        \/ run_node_returns(r)
        \/ run_node_raises(r)
        \/ run_agent_finishes(r)

\* The single run stays as constructed.
ConcurrentInit ==
    InitFrom({[country |-> "india", monthly_income |-> 50000, spending |-> <<>>,
               language |-> "english"]})

SpecConcurrent == ConcurrentInit /\ [][ConcurrentNext]_vars

\* ------------------------------------------------------------------------
\* Stage 1 on budgets around the benchmark thresholds and on the sample
\* budget of test_agent.py.
\* ------------------------------------------------------------------------

\* test_agent.py 8-33, amounts in hundredths.
test_budget ==
    [country |-> "india", monthly_income |-> 5000000,
     spending |-> <<[k |-> "rent", v |-> 1500000], [k |-> "food", v |-> 500000],
                    [k |-> "dining_out", v |-> 800000], [k |-> "transport", v |-> 300000],
                    [k |-> "entertainment", v |-> 400000],
                    [k |-> "subscriptions", v |-> 300000],
                    [k |-> "shopping", v |-> 600000], [k |-> "health", v |-> 100000],
                    [k |-> "education", v |-> 100000], [k |-> "savings", v |-> 200000],
                    [k |-> "investments", v |-> 0], [k |-> "other", v |-> 200000]>>,
     language |-> "english"]

\* With an income of 100.00 an amount in hundredths is its own percentage in
\* hundredths: the amounts sit on and next to the ideal and warning thresholds
\* of both benchmark tables.
ThresholdAmounts ==
    {0, 1, 300, 499, 500, 501, 800, 801, 1000, 1001, 1500, 1501, 2000, 2001,
     2500, 2501, 2800, 2801, 3500, 3501}

ScoringSpendings ==
    {<<[k |-> c, v |-> a]>> :
        c \in {"rent", "dining_out", "savings", "investments"}, a \in ThresholdAmounts}
    \cup {<<[k |-> "savings", v |-> sv], [k |-> "investments", v |-> iv],
            [k |-> "rent", v |-> rv], [k |-> "shopping", v |-> sh]>> :
            sv \in {0, 1000, 2000, 4000}, iv \in {0, 500, 1000, 3000},
            rv \in {0, 3000, 6000}, sh \in {0, 1000}}
    \cup {<<[k |-> "savings", v |-> 1000], [k |-> "investments", v |-> 0],
            [k |-> "gym", v |-> 6500]>>}

ScoringInputs ==
    [country : {"india", "us"}, monthly_income : {10000},
     spending : ScoringSpendings, language : {"english"}]
    \cup {test_budget}

ScoringInit == InitFrom(ScoringInputs)

ScoringNext == AnalyzeSpending(TRUE)

SpecScoring == ScoringInit /\ [][ScoringNext]_vars

\* ========================================================================
\* Properties
\* ========================================================================

\* The input the specification calls valid: income > 0, amounts >= 0.
ValidInput ==
    /\ state.monthly_income > 0
    /\ \A i \in DOMAIN state.spending : state.spending[i].v >= 0

StepNumbers == [k \in DOMAIN state.steps |-> state.steps[k].step_number]

\* What one generate call did to its backends.
Calls == SelectSeq(io, LAMBDA ev : ev.kind = "call")
Sleeps == SelectSeq(io, LAMBDA ev : ev.kind = "sleep")
Providers == [i \in DOMAIN Calls |-> Calls[i].provider]
CallsTo(provider) == {i \in DOMAIN Calls : Calls[i].provider = provider}
GenerateDone == gpc = "done"

\* A quota signature as the specification words it: the status marker 429, or
\* rate- or quota-related text.
QuotaSignature(error_str) ==
    \/ Contains(error_str, "429")
    \/ Contains(Lower(error_str), "rate")
    \/ Contains(Lower(error_str), "quota")

FailedWithQuota(i) == ~Calls[i].result.ok /\ QuotaSignature(Calls[i].result.error)

\* C1: a run on a valid input (income > 0, non-negative amounts) completes, and
\* the trace of the record it returns is exactly the steps numbered 1, 2, 3, 4, 5.
C1_ValidRunReturnsFiveSteps ==
    ValidInput =>
        /\ outcome # "raised"
        /\ outcome = "returned" => StepNumbers = <<1, 2, 3, 4, 5>>

\* C2: the nodes run in the fixed order analyze_spending, fetch_live_data,
\* retrieve_knowledge, generate_roast, generate_coach_plan: at any moment the
\* nodes run so far are a prefix of that order (none skipped, repeated or out of
\* place), and END is reached, and the run returns, only after all five.
GraphOrder ==
    <<"analyze_spending", "fetch_live_data", "retrieve_knowledge",
      "generate_roast", "generate_coach_plan">>

C2_FixedStageOrder ==
    /\ Len(executed) <= Len(GraphOrder)
    /\ executed = SubSeq(GraphOrder, 1, Len(executed))
    /\ (node = END \/ outcome = "returned") => executed = GraphOrder
    /\ (outcome = "running" /\ node # END /\ gpc = "idle")
          => node = GraphOrder[Len(executed) + 1]

C2_Witness ==
    /\ outcome = "returned"
    /\ executed = GraphOrder
    /\ state.coach_plan # ""

\* C3: in every reachable state the k-th trace entry has step_number k, and no
\* step removes or changes an entry already in the trace.
C3_TraceAppendOnly ==
    /\ [](\A k \in DOMAIN state.steps : state.steps[k].step_number = k)
    /\ [][/\ Len(state'.steps) >= Len(state.steps)
          /\ SubSeq(state'.steps, 1, Len(state.steps)) = state.steps]_vars

\* A run in which retrieval failed and generation fell back, with all five entries.
C3_Witness ==
    /\ Len(state.steps) = 5
    /\ state.steps[3].step_name = "Knowledge retrieval"
    /\ state.roast = FALLBACK_MESSAGE

\* C4: when every call of the primary raised a quota-signature error and the
\* secondary succeeded, generate returns the secondary's text after exactly one
\* call of the primary and one of the secondary.
C4_SecondaryTakesOver ==
    ( /\ GenerateDone
      /\ \A i \in CallsTo("groq") : FailedWithQuota(i)
      /\ \A i \in CallsTo("gemini") : Calls[i].result.ok )
    => /\ Providers = <<"groq", "gemini">>
       /\ gresult = Returned(Calls[2].result.text)

C4_Witness ==
    /\ GenerateDone
    /\ Providers = <<"groq", "gemini">>
    /\ FailedWithQuota(1)
    /\ Calls[2].result.ok
    /\ gresult = Returned(Calls[2].result.text)

\* C5: when every call of either provider raised a quota-signature error,
\* generate returns the static fallback string after exactly two calls of the
\* primary and one of the secondary.
C5_BothExhaustedGivesFallback ==
    (GenerateDone /\ \A i \in DOMAIN Calls : FailedWithQuota(i))
    => /\ Providers = <<"groq", "gemini", "groq">>
       /\ gresult = Returned(FALLBACK_MESSAGE)

\* C6: when the first call of the primary raised an error without a quota
\* signature, generate raises that error at once: no sleep, no call of the
\* secondary, no second call of the primary.
C6_NonQuotaErrorRaisedAtOnce ==
    ( /\ gpc # "idle"
      /\ Calls # <<>>
      /\ ~Calls[1].result.ok
      /\ ~QuotaSignature(Calls[1].result.error) )
    => /\ GenerateDone
       /\ gresult = Raised(Calls[1].result.error)
       /\ io = <<GroqCall(gargs.prompt, gargs.max_tokens, Calls[1].result)>>

C6_Witness ==
    /\ GenerateDone
    /\ Len(io) = 1
    /\ ~Calls[1].result.ok
    /\ ~QuotaSignature(Calls[1].result.error)
    /\ gresult = Raised(Calls[1].result.error)

\* C7: once the secondary failed with a quota signature, generate calls the
\* primary exactly once more, and if that call fails, whatever the error, it
\* returns the static fallback string.
C7_RetryOnceThenFallback ==
    ( /\ Len(Calls) >= 2
      /\ FailedWithQuota(2) )
    => \/ gpc = "retry" /\ Len(Calls) = 2
       \/ /\ GenerateDone
          /\ Providers = <<"groq", "gemini", "groq">>
          /\ ~Calls[3].result.ok => gresult = Returned(FALLBACK_MESSAGE)

\* C8: an error of the secondary that the primary's test (line 53) would treat
\* as a quota condition leads to the final retry of the primary, not to an
\* exception.
C8_SameQuotaClassification ==
    ( /\ Len(Calls) >= 2
      /\ ~Calls[2].result.ok
      /\ IsGroqQuotaError(Calls[2].result.error) )
    => /\ gpc = "retry" \/ Len(Calls) = 3
       /\ gresult.kind # "raise"

\* C9: generate returns the fallback string only after the first call of the
\* primary, the call of the secondary and the last call of the primary all
\* failed; any other text it returns is the text of the one call that succeeded.
C9_FallbackOnlyWhenExhausted ==
    (GenerateDone /\ gresult.kind = "return")
    => IF gresult.text = FALLBACK_MESSAGE
       THEN /\ Providers = <<"groq", "gemini", "groq">>
            /\ \A i \in DOMAIN Calls : ~Calls[i].result.ok
       ELSE /\ {i \in DOMAIN Calls : Calls[i].result.ok} = {Len(Calls)}
            /\ gresult.text = Calls[Len(Calls)].result.text

C9_Witness ==
    /\ GenerateDone
    /\ gresult = Returned(FALLBACK_MESSAGE)
    /\ Len(Calls) = 3

\* C10: when a node raises, the exception is captured in the record's error
\* slot and run_agent returns the record instead of raising.
C10_ErrorCapturedRunReturns ==
    exception # None =>
        /\ outcome # "raised"
        /\ state.error # None

\* C11: a trace entry appended for a degraded outcome has a status that differs
\* from the status of a successful stage's entry: the entry of stage 3 when
\* retrieval failed (the retriever could not be loaded, or the store raised on
\* the query), and the entry of stage 4 or 5 when generate handed it the
\* fallback string.
RetrievalFailed ==
    /\ Len(state.steps) >= 3
    /\ \/ state.steps[3].step_name = "Knowledge retrieval"
       \/ kb # <<>> /\ kb[1].raised

C11_DegradedStepShowsInStatus ==
    /\ RetrievalFailed => state.steps[3].status # state.steps[1].status
    /\ (Len(state.steps) >= 4 /\ state.roast = FALLBACK_MESSAGE)
          => state.steps[4].status # state.steps[1].status
    /\ (Len(state.steps) >= 5 /\ state.coach_plan = FALLBACK_MESSAGE)
          => state.steps[5].status # state.steps[1].status

\* C12: when the knowledge store raises on the query, stage 3 leaves an empty
\* retrieved_knowledge, appends exactly one trace entry, that entry says that
\* retrieval was skipped (by its status, or by being the failure entry
\* "Knowledge retrieval" / "Error: ..."), and the run goes on to stage 4.
SkippedIndication(entry) ==
    \/ entry.status # "complete"
    \/ entry.step_name = "Knowledge retrieval"

C12_StoreFailureRecordedAsSkipped ==
    (kb # <<>> /\ kb[1].raised)
    => /\ state.retrieved_knowledge = <<>>
       /\ Len(state.steps) >= 3
       /\ node = "generate_roast" /\ gpc = "idle" => Len(state.steps) = 3
       /\ node # "retrieve_knowledge"
       /\ SkippedIndication(state.steps[3])

\* C13: when the scoring of stage 1 raises (income 0), the exception leaves
\* run_agent: stage 1 is the only stage that ran, the record is still the
\* initial one (no trace entry, no field written), and neither the knowledge
\* store nor a generation backend was called.
C13_ScoringFailurePropagates ==
    ( /\ executed # <<>>
      /\ \/ detect_anomalies_raises(state.spending, state.monthly_income)
         \/ compute_health_score_raises(state.monthly_income) )
    => /\ outcome = "raised"
       /\ exception = <<"division", "by", "zero">>
       /\ executed = <<"analyze_spending">>
       /\ node = "analyze_spending"
       /\ state = create_initial_state(budget_input, 0)
       /\ state.steps = <<>>
       /\ kb = <<>>
       /\ io = <<>> /\ gpc = "idle"

C13_Witness ==
    /\ outcome = "raised"
    /\ state.monthly_income = 0
    /\ state.spending # <<>>
    /\ executed = <<"analyze_spending">>

\* A quota- or rate-type signature on either provider: a status marker (429,
\* RESOURCE_EXHAUSTED) or rate- or quota-related text.
QuotaTypeSignature(error_str) ==
    \/ QuotaSignature(error_str)
    \/ Contains(error_str, "RESOURCE_EXHAUSTED")

Abs(x) == IF x >= 0 THEN x ELSE -x

\* value (in hundredths) is percent % of the income rounded to 2 decimals: it
\* lies within half a hundredth of the exact share.
IsRoundedShare(value, percent, income) ==
    2 * Abs(100 * value - percent * income) <= 100

\* C15: the rebuilt budget that stage 5 writes depends on income and country
\* only: for "india" needs, wants and savings are 40 %, 30 % and 30 % of the
\* income with framework "40/30/30", for any other country 50 %, 30 % and 20 %
\* with framework "50/30/20", each rounded to 2 decimals, whatever text generate
\* returned; "india" with income 50000.00 gives needs 20000.00 exactly.
C15_RebuiltBudgetFromIncomeAndRegion ==
    state.rebuilt_budget # EmptyDict =>
        LET rb == state.rebuilt_budget
            income == state.monthly_income
        IN  /\ state.country = "india" =>
                /\ IsRoundedShare(rb.needs, 40, income)
                /\ IsRoundedShare(rb.wants, 30, income)
                /\ IsRoundedShare(rb.savings_investments, 30, income)
                /\ rb.framework = "40/30/30"
            /\ state.country # "india" =>
                /\ IsRoundedShare(rb.needs, 50, income)
                /\ IsRoundedShare(rb.wants, 30, income)
                /\ IsRoundedShare(rb.savings_investments, 20, income)
                /\ rb.framework = "50/30/20"
            /\ (state.country = "india" /\ income = 5000000) => rb.needs = 2000000

C15_Witness ==
    /\ Len(state.steps) = 5
    /\ state.country = "india"
    /\ state.monthly_income = 5000000
    /\ state.rebuilt_budget.needs = 2000000
    /\ state.coach_plan = FALLBACK_MESSAGE

\* C16: for every income > 0 the three components of the rebuilt budget, each
\* rounded on its own, sum to the income up to rounding: the sum differs from
\* the income by at most 0.015 (one and a half hundredths), and it equals the
\* income when every share is a whole number of hundredths.
BudgetSum(rb) == rb.needs + rb.wants + rb.savings_investments

WholeShares(country, income) ==
    IF country = "india"
    THEN (40 * income) % 100 = 0 /\ (30 * income) % 100 = 0
    ELSE (50 * income) % 100 = 0 /\ (30 * income) % 100 = 0 /\ (20 * income) % 100 = 0

C16_RebuiltBudgetSumsToIncome ==
    (state.rebuilt_budget # EmptyDict /\ state.monthly_income > 0) =>
        /\ 2 * Abs(BudgetSum(state.rebuilt_budget) - state.monthly_income) <= 3
        /\ WholeShares(state.country, state.monthly_income)
              => BudgetSum(state.rebuilt_budget) = state.monthly_income

C16_Witness ==
    /\ state.rebuilt_budget # EmptyDict
    /\ state.country # "india"
    /\ ~WholeShares(state.country, state.monthly_income)
    /\ BudgetSum(state.rebuilt_budget) # state.monthly_income

\* C17: the rebuilt budget written by stage 5 has exactly the fields needs,
\* wants, savings_and_investments and framework.
C17_RebuiltBudgetFields ==
    state.rebuilt_budget # EmptyDict =>
        DOMAIN state.rebuilt_budget
            = {"needs", "wants", "savings_and_investments", "framework"}

\* C18: stage 3 builds its query from the anomaly list.  With at least one
\* flagged entry the query names min(3, number flagged) categories, all of them
\* flagged, in descending anomaly_score order, and no flagged entry left out
\* scores higher than a named one; with none flagged it is the generic query
\* naming the country.  retrieve_knowledge is called once, with the record's
\* country and a result count of 4 (never more than once; not at all only when
\* the retriever could not be loaded).
FlaggedEntries == {j \in DOMAIN state.anomalies : state.anomalies[j].is_anomalous}

ScoreOf(category) ==
    state.anomalies[CHOOSE j \in DOMAIN state.anomalies :
                        state.anomalies[j].category = category].anomaly_score

QueryNamesWorst(q) ==
    /\ q.text = "budgeting advice for overspending on"
    /\ Len(q.categories) = Min(3, Cardinality(FlaggedEntries))
    /\ \A a \in DOMAIN q.categories :
          \E j \in FlaggedEntries : state.anomalies[j].category = q.categories[a]
    /\ \A a, b \in DOMAIN q.categories :
          a < b => /\ q.categories[a] # q.categories[b]
                   /\ ScoreOf(q.categories[a]) >= ScoreOf(q.categories[b])
    /\ \A j \in FlaggedEntries :
          (\A a \in DOMAIN q.categories : q.categories[a] # state.anomalies[j].category)
          => \A a \in DOMAIN q.categories :
                state.anomalies[j].anomaly_score <= ScoreOf(q.categories[a])

OtherSpending ==
    SumValues(state.spending)
    - Get(state.spending, "savings", 0) - Get(state.spending, "investments", 0)

Surplus ==
    IF state.monthly_income - OtherSpending > 0
    THEN state.monthly_income - OtherSpending ELSE 0

C19_InvestableSurplusFloored ==
    state.projections # EmptyDict =>
        /\ state.projections.monthly_investable_amount = Surplus
        /\ state.projections.monthly_investable_amount >= 0
        /\ \A y \in DOMAIN state.projections.projections :
              LET result == state.projections.projections[y]
              IN  IF Surplus = 0 THEN result.status = "error"
                  ELSE result.monthly_amount = Surplus

C19_Witness ==
    /\ state.projections # EmptyDict
    /\ OtherSpending > state.monthly_income
    /\ Get(state.spending, "savings", 0) > 0
    /\ state.projections.monthly_investable_amount = 0

\* C20: stage 2 never raises and appends exactly one trace entry, also when the
\* providers hand it fallback or error-only dictionaries and when the surplus
\* is 0; what they returned is stored in the record as it is, and stages 4 and
\* 5 read it with defaults ("N/A" for a missing inflation_rate, "" for a
\* missing tax tip, 0 for a projection without future_value), so that the only
\* exceptions of stages 4 and 5 are those of generate.
Stage2Done == Len(executed) >= 2

C20_DegradedProvidersTolerated ==
    /\ (Len(executed) >= 1 /\ outcome = "raised") => Len(executed) # 2
    /\ (Len(executed) = 2) => Len(state.steps) = 2
    /\ Stage2Done =>
          /\ state.steps[2].step_name = "Fetching live market and economic data"
          /\ state.inflation_data \in get_inflation(state.country)
          /\ state.market_data \in get_market_data(state.country)
          /\ state.tax_estimate = get_tax_estimate(state.country, state.monthly_income * 12)
          /\ state.news_articles \in {<<>>, Articles(MAX_ARTICLES)}
          /\ state.projections.status = "success"
    /\ (Stage2Done /\ gpc # "idle") =>
          /\ gargs.prompt.inflation_rate =
                IF "inflation_rate" \in DOMAIN state.inflation_data
                THEN state.inflation_data.inflation_rate ELSE "N/A"
          /\ gargs.prompt.template = "coach" =>
                /\ gargs.prompt.tax_tip =
                      IF "tip" \in DOMAIN state.tax_estimate
                      THEN state.tax_estimate.tip ELSE ""
                /\ \A y \in DOMAIN state.projections.projections :
                      state.projections.projections[y].status = "error"
                      => gargs.prompt.proj_summary[y] = 0
    /\ (outcome = "raised" /\ Len(executed) >= 4) => exception \in ErrorStrings

C20_Witness ==
    /\ outcome = "returned"
    /\ Len(state.steps) = 5
    /\ "inflation_rate" \notin DOMAIN state.inflation_data
    /\ "error" \in DOMAIN state.market_data
    /\ "error" \in DOMAIN state.tax_estimate
    /\ state.news_articles = <<>>
    /\ state.projections.monthly_investable_amount = 0
    /\ state.coach_plan \in GroqTexts

\* C21: no step changes the input fields (country, monthly_income, spending,
\* language), and a derived field changes only in the step of the stage that
\* owns it: once stage k has appended its trace entry, its fields stay as they
\* are (anomalies, health_score, health_grade of stage 1; the provider snapshots
\* and projections of stage 2; retrieved_knowledge of stage 3; roast of stage 4;
\* coach_plan and rebuilt_budget of stage 5).
InputFields(st) == <<st.country, st.monthly_income, st.spending, st.language>>

OwnedFields(st, k) ==
    CASE k = 1 -> <<st.anomalies, st.health_score, st.health_grade>>
      [] k = 2 -> <<st.inflation_data, st.market_data, st.news_articles,
                    st.tax_estimate, st.projections>>
      [] k = 3 -> <<st.retrieved_knowledge>>
      [] k = 4 -> <<st.roast>>
      [] k = 5 -> <<st.coach_plan, st.rebuilt_budget>>

C21_FieldsWrittenByOwnerOnly ==
    [][/\ InputFields(state') = InputFields(state)
       /\ \A k \in 1..5 :
             OwnedFields(state', k) # OwnedFields(state, k)
             => /\ Len(state.steps) = k - 1
                /\ Len(state'.steps) = k]_vars

C21_Witness ==
    /\ Len(state.steps) = 5
    /\ state.anomalies # <<>>
    /\ state.retrieved_knowledge # <<>>
    /\ state.roast \in GroqTexts
    /\ state.coach_plan \in GeminiTexts

\* C23: every backend call made within one generate call carries the prompt the
\* caller passed and the caller's max_tokens.
C23_SamePromptAndBudgetOnEveryCall ==
    \A i \in DOMAIN Calls :
        /\ Calls[i].prompt = gargs.prompt
        /\ "max_tokens" \in DOMAIN Calls[i]
        /\ Calls[i].max_tokens = gargs.max_tokens

\* C25: when the primary failed with a quota signature and the secondary then
\* failed with an error its test does not take for a quota condition, generate
\* raises the secondary's error: the only wait is the short one, the primary is
\* not called again and the fallback string is not returned.
C25_SecondaryErrorRaised ==
    ( /\ Len(Calls) >= 2
      /\ ~Calls[2].result.ok
      /\ ~IsGeminiQuotaError(Calls[2].result.error) )
    => /\ GenerateDone
       /\ Providers = <<"groq", "gemini">>
       /\ gresult = Raised(Calls[2].result.error)
       /\ gresult = Raised(gemini_error)
       /\ Sleeps = <<Sleep(QUOTA_COOLDOWN)>>

C25_Witness ==
    /\ GenerateDone
    /\ Len(Calls) = 2
    /\ FailedWithQuota(1)
    /\ Calls[2].result = [ok |-> FALSE, error |-> <<"401", "Unauthorized">>]
    /\ Calls[1].result.error # Calls[2].result.error
    /\ gresult = Raised(<<"401", "Unauthorized">>)

\* C30: the passages stage 3 got from the knowledge store for the record's
\* country are each tagged with that country or with "both", they are at most
\* the 4 asked for, and they are in descending order of similarity.
C30_PassagesFilteredBoundedSorted ==
    LET knowledge == state.retrieved_knowledge
    IN  /\ \A i \in DOMAIN knowledge : knowledge[i].country \in {state.country, "both"}
        /\ Len(knowledge) <= 4
        /\ \A i, j \in DOMAIN knowledge :
              i < j => knowledge[i].similarity >= knowledge[j].similarity

C30_Witness ==
    /\ Len(state.retrieved_knowledge) = 4
    /\ state.country = "india"
    /\ \E i \in 1..4 : state.retrieved_knowledge[i].country = "india"
    /\ \E i \in 1..4 : state.retrieved_knowledge[i].country = "both"
    /\ state.retrieved_knowledge[1].similarity > state.retrieved_knowledge[4].similarity

\* C27: generate keeps nothing from one call to the next.  Every call starts
\* with the primary, whatever the call before it ended with; a run enters
\* generate at most twice (node 4, then node 5) and makes at most 6 backend
\* calls; and node 5 calls generate also when node 4 was handed the fallback
\* string.
GenerateCalls ==
    Cardinality({i \in DOMAIN executed :
                    executed[i] \in {"generate_roast", "generate_coach_plan"}})

C27_GenerateIsStateless ==
    /\ gpc = "groq" => io = <<>>
    /\ (gpc # "idle" /\ gpc # "groq")
          => /\ io # <<>>
             /\ io[1].kind = "call"
             /\ io[1].provider = "groq"
    /\ GenerateCalls <= 2
    /\ attempts <= 3 * GenerateCalls
    /\ attempts <= 6
    /\ (outcome = "running" /\ node = "generate_coach_plan" /\ gpc = "idle")
          => ENABLED coach_call_generate

C27_Witness ==
    /\ state.roast = FALLBACK_MESSAGE
    /\ node = "generate_coach_plan"
    /\ gpc = "done"
    /\ gresult = Returned(FALLBACK_MESSAGE)
    /\ Calls[1].provider = "groq"
    /\ attempts = 6

\* The backend calls return or raise: a generate call that has started goes on
\* with its next step.
\* generate does not look at the budget: two budgets are enough here.
FairInit == Init /\ budget_input.spending \in {<<>>, <<[k |-> "savings", v |-> 2000]>>}
                 /\ budget_input.monthly_income >= 50000
                 /\ budget_input.monthly_income % 100 = 0

FairSpec ==
    /\ FairInit /\ [][Next]_vars
    /\ WF_vars(groq_first_attempt)
    /\ WF_vars(gemini_fallback)
    /\ WF_vars(groq_final_retry)

\* C24: within one generate call the backend calls are a prefix of primary,
\* secondary, primary.  The secondary is called only after the primary failed
\* with a quota-type signature and the short wait; the primary is called again
\* only after the secondary failed with a quota-type signature and the long
\* wait.  There are never more than 3 calls and 2 waits, and a generate call
\* that has started ends with a text returned or an exception raised.
CallOrder == <<"groq", "gemini", "groq">>

QuotaTypeFailure(call) ==
    ~call.result.ok /\ QuotaTypeSignature(call.result.error)

C24_CallsFormPrefix ==
    /\ [](/\ Len(Calls) <= 3
          /\ Providers = SubSeq(CallOrder, 1, Len(Calls))
          /\ Len(Sleeps) <= 2
          /\ Len(Calls) >= 2 =>
                /\ QuotaTypeFailure(Calls[1])
                /\ SubSeq(io, 1, 3) = <<Calls[1], Sleep(QUOTA_COOLDOWN), Calls[2]>>
          /\ Len(Calls) = 3 =>
                /\ QuotaTypeFailure(Calls[2])
                /\ SubSeq(io, 3, 5) = <<Calls[2], Sleep(FULL_COOLDOWN), Calls[3]>>
          /\ GenerateDone => gresult.kind \in {"return", "raise"})
    /\ (gpc = "groq") ~> GenerateDone

C24_Witness ==
    /\ GenerateDone
    /\ Len(Calls) = 3
    /\ Len(Sleeps) = 2
    /\ Calls[3].result.ok
    /\ gresult = Returned(Calls[3].result.text)

\* ------------------------------------------------------------------------
\* C28, C29: the numbers of stage 1
\* ------------------------------------------------------------------------
Stage1Done == executed # <<>> /\ executed[1] = "analyze_spending" /\ outcome = "running"

\* The grade the thresholds give for a score in tenths.
GradeByThresholds(score) ==
    CASE score >= 800 -> "A"
      [] score >= 650 /\ score < 800 -> "B"
      [] score >= 500 /\ score < 650 -> "C"
      [] score >= 350 /\ score < 500 -> "D"
      [] score < 350 -> "F"

IsIndiaScenario ==
    /\ state.country = "india"
    /\ state.monthly_income = 5000000
    /\ Get(state.spending, "savings", -1) = 200000
    /\ Get(state.spending, "investments", -1) = 0
    /\ SumValues(state.spending) = 5000000

\* C28: for income > 0 and non-negative amounts the health score stage 1
\* writes lies in 0..100 (0..1000 tenths), the grade is the one the
\* thresholds 80/65/50/35 give for that score, and the sample budget of India
\* (income 50000, savings 2000, investments 0, all of the income spent) is
\* graded D or F.
C28_ScoreInRangeAndGraded ==
    (Stage1Done /\ ValidInput) =>
        /\ state.health_score \in 0..1000
        /\ state.health_grade = GradeByThresholds(state.health_score)
        /\ IsIndiaScenario => state.health_grade \in {"D", "F"}

C28_Witness ==
    /\ Stage1Done /\ ValidInput /\ IsIndiaScenario
    /\ state.health_score = 140 /\ state.health_grade = "F"

C28_WitnessAtThreshold ==
    Stage1Done /\ ValidInput /\ state.health_score = 500 /\ state.health_grade = "C"

\* The verdict the benchmark thresholds give; percentage in hundredths of a
\* percent, as reported in the entry.
VerdictByThresholds(a, country) ==
    LET b == Benchmarks(country)[a.category]
        p == a.percentage_of_income
    IN  IF a.category \in {"savings", "investments"}
        THEN CASE p >= 100 * b.ideal -> "healthy"
               [] p < 100 * b.ideal /\ p >= 100 * b.warning -> "warning"
               [] p < 100 * b.ideal /\ p < 100 * b.warning -> "critical"
        ELSE CASE p <= 100 * b.ideal -> "healthy"
               [] p > 100 * b.ideal /\ p <= 100 * b.warning -> "warning"
               [] p > 100 * b.ideal /\ p > 100 * b.warning -> "critical"

\* C29: every anomaly entry's verdict is healthy, warning or critical and is
\* the one the region's thresholds give for the entry's percentage of income,
\* with the comparison inverted for savings and investments; an investments
\* amount of 0 is critical.
C29_VerdictByThresholds ==
    (Stage1Done /\ ValidInput) =>
        \A i \in DOMAIN state.anomalies :
            LET a == state.anomalies[i] IN
            /\ a.verdict \in {"healthy", "warning", "critical"}
            /\ a.percentage_of_income = Percentage(a.amount, state.monthly_income)
            /\ a.verdict = VerdictByThresholds(a, state.country)
            /\ (a.category = "investments" /\ a.amount = 0) => a.verdict = "critical"

C29_Witness ==
    /\ Stage1Done /\ ValidInput
    /\ \E i, j, k \in DOMAIN state.anomalies :
        /\ state.anomalies[i].category = "investments"
        /\ state.anomalies[i].amount = 0
        /\ state.anomalies[i].verdict = "critical"
        /\ state.anomalies[j].category = "savings"
        /\ state.anomalies[j].verdict = "healthy"
        /\ state.anomalies[k].category = "rent"
        /\ state.anomalies[k].verdict = "warning"

\* ------------------------------------------------------------------------
\* C26: what a node does to the record it is handed
\* ------------------------------------------------------------------------

\* C26: a stage function does not modify the record it receives: once the
\* stage has returned, every field of that record, the trace included, is what
\* it was at the call, and the new trace entry is in the returned record only.
C26_ReceivedRecordUnmodified ==
    /\ received.after = received.before
    /\ (executed # <<>> /\ outcome = "running" /\ Len(state.steps) > Len(received.before.steps))
          => Len(received.after.steps) < Len(state.steps)

\* ------------------------------------------------------------------------
\* C22: concurrent runs
\* ------------------------------------------------------------------------
Started(r) == runs[r].pc # "idle"

TraceOf(r) == heap[runs[r].record.steps]

DerivedFields == {"anomalies", "inflation_data", "retrieved_knowledge", "roast", "coach_plan"}

\* C22: two runs whose stages interleave share no record: a run's trace holds
\* only entries of its own stages, numbered from 1, exactly 1..5 when the run
\* returns; its steps list is not the other run's; and no field of its record
\* was written by the other run.
C22_RunsShareNothing ==
    \A r \in Runs : Started(r) =>
        /\ \A q \in Runs \ {r} : Started(q) => runs[q].record.steps # runs[r].record.steps
        /\ \A k \in DOMAIN TraceOf(r) :
              TraceOf(r)[k].by = r /\ TraceOf(r)[k].step_number = k
        /\ \A f \in DerivedFields : runs[r].record[f] \in {Unwritten, r}
        /\ runs[r].pc = "returned" =>
              /\ Len(TraceOf(r)) = 5
              /\ \A f \in DerivedFields : runs[r].record[f] = r

\* Both runs returned, their stages having alternated.
C22_Witness ==
    /\ \A r \in Runs : runs[r].pc = "returned" /\ Len(TraceOf(r)) = 5
    /\ \A k \in 1..5 : /\ TraceOf(1)[k].timestamp = 2 * k - 1
                        /\ TraceOf(2)[k].timestamp = 2 * k

====
